---- MODULE Spec2Model ----
(***************************************************************************)
(* A model of the ShaRP facade (src/sharp/base.py): the fitted session,   *)
(* the five computation modes and the parallel map they hand their tasks  *)
(* to.  An influence is kept symbolic: the record of everything the        *)
(* measure engine was invoked with plus the generator draw it consumed.    *)
(***************************************************************************)
EXTENDS Integers, Sequences, FiniteSets

\* ------------------------------------------------------------------ bounds
MaxRows == 2      \* rows of the largest dataset
NFeat == 2        \* columns of every dataset
MaxJobs == 2      \* largest worker count n_jobs
MaxDraws == 3     \* a call starts only while the generator has made fewer draws

\* ------------------------------------------------------------ input values
None == -1        \* Python's None in an optional integer position
NoneX == <<>>     \* Python's None in an optional dataset position

Pool == [i \in 1..MaxRows |-> [j \in 1..NFeat |-> 10 * i + j]]
Rows == {Pool[i] : i \in 1..MaxRows}
Datasets == {SubSeq(Pool, a, b) : a \in 1..MaxRows, b \in 1..MaxRows} \ {<<>>}

FitSets == {SubSeq(Pool, 1, b) : b \in 1..MaxRows}     \* datasets fitted on

Seeds == {7}
SizeCfg == {None, MaxRows}            \* constructor sample_size
CoalCfg == {None, 0}                  \* constructor coalition_size
KwSizes == {None, 1}                  \* per-call sample_size override
KwCoals == {None, NFeat - 1}          \* per-call coalition_size override
KwCols == {None, 0}                   \* per-call set_cols_idx
Kwargs == [sample_size : KwSizes, coalition_size : KwCoals,
           set_cols_idx : KwCols, verbose : BOOLEAN]
Quiet == {kw \in Kwargs : ~kw.verbose}  \* no verbose keyword passed

\* A sample is a row, an integer index, a list of indices or a set of rows.
RowSample(r) == [kind |-> "row", row |-> r, idx |-> None, set |-> NoneX]
IntSample(k) == [kind |-> "int", row |-> <<>>, idx |-> k, set |-> NoneX]
ListSample(l) == [kind |-> "list", row |-> l, idx |-> None, set |-> NoneX]
SetSample(D) == [kind |-> "set", row |-> <<>>, idx |-> None, set |-> D]
Samples1 == {RowSample(r) : r \in Rows} \cup {IntSample(k) : k \in 0..MaxRows - 1}
Samples2 == Samples1 \cup {SetSample(Pool), ListSample(<<0>>)}
Features == [kind : {"int"}, idx : 0..NFeat - 1, name : {<<>>}]
                \cup [kind : {"str"}, idx : {None}, name : {<<"f", 0>>}]

Width(D) == Len(D[1])

\* ------------------------------------------------------------------- state
VARIABLES sample_size, coalition_size, replace, random_state, n_jobs,
          fitted, _X, _y, _rng, qoi_, measure_, feature_names_,
          pc, call, tasks, status, res, ret, err, prev

config == <<sample_size, coalition_size, replace, random_state, n_jobs>>
session == <<fitted, _X, _y, qoi_, measure_, feature_names_>>
loop == <<tasks, status, res>>
vars == <<config, session, _rng, pc, call, loop, ret, err, prev>>

NoErr == [kind |-> "none", site |-> "none"]
NoCall == [op |-> "none"]
NoRet == <<>>
NoPrev == [op |-> "none"]

Init ==
    /\ sample_size \in SizeCfg
    /\ coalition_size \in CoalCfg
    /\ replace \in BOOLEAN
    /\ random_state \in Seeds
    /\ n_jobs \in 1..MaxJobs
    /\ fitted = FALSE
    /\ _X = NoneX
    /\ _y = NoneX
    /\ _rng = [seed |-> None, n |-> 0]
    /\ qoi_ = [name |-> "unset", X |-> NoneX]
    /\ measure_ = "unset"
    /\ feature_names_ = <<>>
    /\ pc = "idle"
    /\ call = NoCall
    /\ tasks = <<>>
    /\ status = <<>>
    /\ res = <<>>
    /\ ret = NoRet
    /\ err = NoErr
    /\ prev = NoPrev

\* --------------------------------------------------------------------- fit
FeatureName(j) == <<"f", j>>
check_feature_names(X) == [j \in 1..Width(X) |-> FeatureName(j - 1)]
check_qoi(name, X) == [name |-> name, X |-> X]
check_random_state(seed) == [seed |-> seed, n |-> 0]

fitBody ==
    /\ pc = "idle"
    /\ \E X \in FitSets :
        /\ _X' = X
        /\ _y' = NoneX
        /\ _rng' = check_random_state(random_state)
        /\ qoi_' = check_qoi("rank", X)          \* qoi is left at None
        /\ feature_names_' = check_feature_names(X)
        /\ measure_' = "shapley"                 \* measure is left at its default
        /\ fitted' = TRUE
    /\ UNCHANGED <<config, pc, call, loop, ret, err>>

fit == fitBody /\ UNCHANGED prev

\* -------------------------------------------------------- measure engine
\* One invocation of self.measure_: what the engine is handed.
MeasureCall(row, col_idx, set_cols_idx, X, ss, cs) ==
    [row |-> row, col_idx |-> col_idx, set_cols_idx |-> set_cols_idx, X |-> X,
     qoi |-> qoi_.name, sample_size |-> ss, coalition_size |-> cs,
     replace |-> replace]

\* The engine rejects sizes outside their range and rows of the wrong width.
MeasureRaises(m) ==
    \/ m.sample_size < 1
    \/ (m.sample_size > Len(m.X) /\ ~m.replace)
    \/ m.coalition_size < 0
    \/ m.coalition_size > Width(m.X) - 1
    \/ Len(m.row) # Width(m.X)

\* The influence the engine returns: a function of its inputs and of the
\* draw it takes from the generator.
Influence(m, rng) == [m |-> m, draw |-> <<rng.seed, rng.n>>]

\* -------------------------------------------------------------- individual
\* Lines 153-178: the reference set, the row and the two sizes.
individual_args(sample, X, kw) ==
    LET Xr == IF X = NoneX THEN qoi_.X ELSE X
        cs == IF kw.coalition_size # None THEN kw.coalition_size
              ELSE IF coalition_size # None THEN coalition_size
              ELSE Width(Xr) - 1
        oor == sample.kind = "int" /\ sample.idx >= Len(Xr)
        row == IF sample.kind = "int"
               THEN (IF oor THEN <<>> ELSE Xr[sample.idx + 1])
               ELSE sample.row
        ss == IF kw.sample_size # None THEN kw.sample_size
              ELSE IF sample_size # None THEN sample_size
              ELSE Len(Xr)
    IN  [raise |-> IF oor THEN "IndexError" ELSE "none",
         row |-> row, set_cols_idx |-> kw.set_cols_idx, X |-> Xr,
         sample_size |-> ss, coalition_size |-> cs]

\* individual that walks the features from the last to the first.
individual_calls_reversed(a) ==
    [j \in 1..Len(feature_names_) |->
        MeasureCall(a.row, Len(feature_names_) - j, a.set_cols_idx, a.X,
                    a.sample_size, a.coalition_size)]

\* Lines 181-196: one engine call per col_idx in range(len(feature_names_)).
individual_calls(a) ==
    [j \in 1..Len(feature_names_) |->
        MeasureCall(a.row, j - 1, a.set_cols_idx, a.X, a.sample_size,
                    a.coalition_size)]

\* A task of a loop: the exception its own code ends with, if any, and the
\* engine calls it makes, in order.
Task(raise, ms) == [raise |-> raise, ms |-> ms]

\* individual's loop: one task per feature.
individual_tasks(a) ==
    [j \in 1..Len(feature_names_) |-> Task("none", << individual_calls(a)[j] >>)]

\* individual run inside a task of an outer loop: its own loop runs in line
\* on the worker that holds the outer task.
nested_individual(a) ==
    IF a.raise # "none" THEN Task(a.raise, <<>>)
    ELSE Task("none", individual_calls(a))

Pending(ts) == [k \in 1..Len(ts) |-> "pending"]
Empty(ts) == [k \in 1..Len(ts) |-> <<>>]

\* An exception leaves the operation for its caller: nothing is returned.
Raise(kind, site, c) ==
    /\ err' = [kind |-> kind, site |-> site]
    /\ ret' = NoRet
    /\ pc' = "raised"
    /\ call' = c
    /\ tasks' = <<>>
    /\ status' = <<>>
    /\ res' = <<>>

\* The operation hands its task list to the loop.
Dispatch(c, ts) ==
    /\ err' = NoErr
    /\ ret' = NoRet
    /\ pc' = "running"
    /\ call' = c
    /\ tasks' = ts
    /\ status' = Pending(ts)
    /\ res' = Empty(ts)

CanCall == pc = "idle" /\ fitted /\ _rng.n < MaxDraws

individualBody(SS, XS, KS) ==
    /\ CanCall
    /\ \E sample \in SS, X \in XS, kw \in KS :
        LET a == individual_args(sample, X, kw)
            c == [op |-> "individual", sample |-> sample, X |-> X, kw |-> kw]
        IN  IF a.raise # "none"
            THEN Raise(a.raise, "call", c)
            ELSE Dispatch(c, individual_tasks(a))

\* individual that keeps the size it resolved on the session.
individual_caching ==
    /\ individualBody(Samples1, Datasets \cup {NoneX}, Quiet)
    /\ sample_size' = IF sample_size = None THEN Len(_X) ELSE sample_size
    /\ UNCHANGED <<coalition_size, replace, random_state, n_jobs, session, _rng, prev>>

individual ==
    /\ individualBody(Samples1, Datasets \cup {NoneX}, Quiet)
    /\ UNCHANGED <<config, session, _rng, prev>>

\* ----------------------------------------------------------------- feature
\* Lines 204-227: the column, the sizes; lines 229-243: one engine call per
\* row of X_, each against X_ itself.
\* Lines 206-208: feature_names_.index(feature) for a name.
col_idx_of(f) ==
    LET hit == {j \in DOMAIN feature_names_ : feature_names_[j] = f.name}
    IN  IF f.kind = "str"
        THEN (IF hit = {} THEN None ELSE (CHOOSE j \in hit : TRUE) - 1)
        ELSE f.idx

feature_tasks(f, X, kw) ==
    LET col_idx == col_idx_of(f)
        cs == IF kw.coalition_size # None THEN kw.coalition_size
              ELSE IF coalition_size # None THEN coalition_size
              ELSE Width(X) - 1
        ss == IF kw.sample_size # None THEN kw.sample_size
              ELSE IF sample_size # None THEN sample_size
              ELSE Len(X)
    IN  IF col_idx = None
        THEN << Task("ValueError", <<>>) >>
        ELSE [i \in 1..Len(X) |->
                 Task("none", << MeasureCall(X[i], col_idx, kw.set_cols_idx,
                                             X, ss, cs) >>)]

feature ==
    /\ CanCall
    /\ \E f \in Features, X \in Datasets \cup {NoneX}, kw \in Quiet :
        LET c == [op |-> "feature", feature |-> f, X |-> X, kw |-> kw]
        IN  IF X = NoneX
            THEN Raise("ValidationError", "call", c)
            ELSE Dispatch(c, feature_tasks(f, X, kw))
    /\ UNCHANGED <<config, session, _rng, prev>>

\* --------------------------------------------------------------------- all
\* Line 255-257: row sample_idx is explained by individual(X_[sample_idx],
\* X_ref, verbose=False, **kwargs), a second verbose being a TypeError.
all_task(i, X, X_ref, kw) ==
    IF kw.verbose THEN Task("TypeError", <<>>)
    ELSE nested_individual(individual_args(RowSample(X[i]), X_ref, kw))

\* all that takes the explained rows as their own reference set.
all_tasks_self(X, kw) == [i \in 1..Len(X) |-> all_task(i, X, X, kw)]

\* Lines 251-261: the reference set and one task per row index.
all_tasks(X, kw) ==
    LET X_ref == IF _X # NoneX THEN _X ELSE X
    IN  [i \in 1..Len(X) |-> all_task(i, X, X_ref, kw)]

all ==
    /\ CanCall
    /\ \E X \in Datasets \cup {NoneX}, kw \in Kwargs :
        LET c == [op |-> "all", X |-> X, kw |-> kw]
        IN  IF X = NoneX
            THEN Raise("ValidationError", "call", c)
            ELSE Dispatch(c, all_tasks(X, kw))
    /\ UNCHANGED <<config, session, _rng, prev>>

\* ---------------------------------------------------------------- pairwise
BadIndex == [kind |-> "bad", row |-> <<>>, idx |-> None, set |-> NoneX]

\* X[sample] for an integer or a list of integers (lines 276-280).
Index(X, s) ==
    IF s.kind = "int"
    THEN (IF s.idx < Len(X) THEN RowSample(X[s.idx + 1]) ELSE BadIndex)
    ELSE IF s.kind = "list"
    THEN (IF \A k \in DOMAIN s.row : s.row[k] < Len(X)
          THEN SetSample([k \in DOMAIN s.row |-> X[s.row[k] + 1]])
          ELSE BadIndex)
    ELSE s

\* Line 282: a single row becomes a reference set of one row.
reshape(s) == IF s.kind = "row" THEN << s.row >> ELSE s.set

\* Lines 273-308: what pairwise hands to individual, or the exception it
\* ends with.  kwX is the X keyword (NoneX when absent).
pairwise_args(sample1, sample2, kwX, kw) ==
    LET hasX == kwX # NoneX
        s1 == IF hasX THEN Index(kwX, sample1) ELSE sample1
        s2 == IF hasX THEN Index(kwX, sample2) ELSE sample2
        ref == reshape(s2)
        ss == IF kw.sample_size # None THEN kw.sample_size
              ELSE IF sample_size # None
              THEN (IF sample_size > Len(ref) THEN Len(ref) ELSE sample_size)
              ELSE Len(ref)
        cs == IF kw.coalition_size # None THEN kw.coalition_size
              ELSE IF coalition_size # None THEN coalition_size
              ELSE Len(s1.row) - 1
        raise == IF s1.kind = "bad" \/ s2.kind = "bad" THEN "IndexError"
                 ELSE IF s2.kind \in {"int", "list"} THEN "AttributeError"
                 ELSE IF kw.coalition_size = None /\ coalition_size = None
                         /\ s1.kind = "int" THEN "AttributeError"
                 ELSE IF hasX \/ kw.sample_size # None \/ kw.coalition_size # None
                 THEN "TypeError"
                 ELSE "none"
    IN  [raise |-> raise, sample |-> s1, X |-> ref,
         kw |-> [sample_size |-> ss, coalition_size |-> cs,
                 set_cols_idx |-> kw.set_cols_idx, verbose |-> kw.verbose]]

\* pairwise followed by the individual it delegates to.
pairwise_individual(sample1, sample2, kwX, kw) ==
    LET p == pairwise_args(sample1, sample2, kwX, kw)
    IN  IF p.raise # "none"
        THEN [raise |-> p.raise, row |-> <<>>, set_cols_idx |-> None,
              X |-> NoneX, sample_size |-> None, coalition_size |-> None]
        ELSE individual_args(p.sample, p.X, p.kw)

pairwise ==
    /\ CanCall
    /\ \E sample1 \in Samples1, sample2 \in Samples2,
          kwX \in {NoneX, Pool}, kw \in Quiet :
        LET a == pairwise_individual(sample1, sample2, kwX, kw)
            c == [op |-> "pairwise", sample1 |-> sample1, sample2 |-> sample2,
                  X |-> kwX, kw |-> kw]
        IN  IF a.raise # "none"
            THEN Raise(a.raise, "call", c)
            ELSE Dispatch(c, individual_tasks(a))
    /\ UNCHANGED <<config, session, _rng, prev>>

\* ------------------------------------------------------------ pairwise_set
Min(a, b) == IF a < b THEN a ELSE b

\* zip that carries on to the end of the first sequence.
zip_first(s1, s2) == [i \in 1..Len(s1) |-> << s1[i], s2[Min(i, Len(s2))] >>]

zip(s1, s2) == [i \in 1..Min(Len(s1), Len(s2)) |-> << s1[i], s2[i] >>]

\* Line 316: pairwise(*samples, verbose=False, **kwargs).
pairwise_set_task(pair, kwX, kw) ==
    IF kw.verbose THEN Task("TypeError", <<>>)
    ELSE nested_individual(pairwise_individual(RowSample(pair[1]),
                                               RowSample(pair[2]), kwX, kw))

\* Lines 315-320: one task per pair of zip(samples1, samples2).
pairwise_set_tasks(samples1, samples2, kwX, kw) ==
    LET pairs == zip(samples1, samples2)
    IN  [i \in 1..Len(pairs) |-> pairwise_set_task(pairs[i], kwX, kw)]

pairwise_set ==
    /\ CanCall
    /\ \E samples1 \in Datasets, samples2 \in Datasets,
          kwX \in {NoneX, Pool}, kw \in Kwargs :
        LET c == [op |-> "pairwise_set", samples1 |-> samples1,
                  samples2 |-> samples2, X |-> kwX, kw |-> kw]
        IN  Dispatch(c, pairwise_set_tasks(samples1, samples2, kwX, kw))
    /\ UNCHANGED <<config, session, _rng, prev>>

\* A computation asked of a session that was never fitted finds no qoi_,
\* measure_ or _rng attribute.
Ops == {"individual", "feature", "all", "pairwise", "pairwise_set"}

unfitted ==
    /\ pc = "idle"
    /\ ~fitted
    /\ \E op \in Ops : Raise("AttributeError", "call", [op |-> "unfitted", name |-> op])
    /\ UNCHANGED <<config, session, _rng, prev>>

\* ------------------------------------------------------------ parallel_loop
\* The loop of feature is a plain for loop; the others go through
\* parallel_loop with n_jobs workers, which takes the tasks in order.
Workers == IF call.op = "feature" THEN 1 ELSE n_jobs
Running == {k \in DOMAIN status : status[k] = "running"}

TaskStart ==
    /\ pc = "running"
    /\ Cardinality(Running) < Workers
    /\ \E k \in DOMAIN status :
        /\ status[k] = "pending"
        /\ \A l \in 1..k - 1 : status[l] # "pending"
        /\ status' = [status EXCEPT ![k] = "running"]
    /\ UNCHANGED <<config, session, _rng, pc, call, tasks, res, ret, err, prev>>

\* The engine calls of a task that come back before one is refused.
RECURSIVE Accepted(_)
Accepted(ms) ==
    IF ms = <<>> \/ MeasureRaises(Head(ms)) THEN <<>>
    ELSE << Head(ms) >> \o Accepted(Tail(ms))

TaskRaise(t) ==
    IF t.raise # "none" THEN t.raise
    ELSE IF Len(Accepted(t.ms)) < Len(t.ms) THEN "ConfigurationError"
    ELSE "none"

ErrorSite == IF call.op = "feature" THEN "call" ELSE "task"

\* The influences of a task's engine calls, each taking the generator's
\* next draw.
Influences(ms, rng) ==
    [j \in 1..Len(ms) |-> Influence(ms[j], [rng EXCEPT !.n = @ + j - 1])]
AdvanceBy(rng, d) == [rng EXCEPT !.n = @ + d]

\* A running task ends: with an exception, which ends the whole loop, or
\* with its influences.
TaskFinish ==
    /\ pc = "running"
    /\ \E k \in Running :
        /\ _rng' = AdvanceBy(_rng, Len(Accepted(tasks[k].ms)))
        /\ IF TaskRaise(tasks[k]) # "none"
           THEN Raise(TaskRaise(tasks[k]), ErrorSite, call)
           ELSE /\ res' = [res EXCEPT ![k] = Influences(tasks[k].ms, _rng)]
                /\ status' = [status EXCEPT ![k] = "done"]
                /\ UNCHANGED <<pc, call, tasks, ret, err>>
    /\ UNCHANGED <<config, session, prev>>

\* parallel_loop returns the results by position in the task list, not by
\* completion.
Vector == [k \in 1..Len(res) |-> res[k][1]]
Matrix == res

\* np.mean of symbolic influences: the multiset it averages.
Seq2Bag(s) ==
    [x \in {s[k] : k \in DOMAIN s} |-> Cardinality({k \in DOMAIN s : s[k] = x})]
Mean(s) == [mean_of |-> Seq2Bag(s)]

Result ==
    IF call.op = "feature" THEN Mean(Vector)
    ELSE IF call.op \in {"individual", "pairwise"} THEN Vector
    ELSE Matrix

Finished == pc = "running" /\ \A k \in DOMAIN status : status[k] = "done"

\* The operation hands its result to the caller.
Return ==
    /\ Finished
    /\ ret' = Result
    /\ pc' = "returned"
    /\ tasks' = <<>>
    /\ status' = <<>>
    /\ res' = <<>>
    /\ UNCHANGED <<config, session, _rng, call, err, prev>>

\* The caller takes the result or the exception; the session is idle again.
ContinueBody ==
    /\ pc \in {"returned", "raised"}
    /\ pc' = "idle"
    /\ call' = NoCall
    /\ ret' = NoRet
    /\ err' = NoErr
    /\ UNCHANGED <<config, session, _rng, loop>>

Continue == ContinueBody /\ UNCHANGED prev

Next ==
    \/ fit
    \/ unfitted
    \/ individual
    \/ feature
    \/ all
    \/ pairwise
    \/ pairwise_set
    \/ TaskStart
    \/ TaskFinish
    \/ Return
    \/ Continue

Spec == Init /\ [][Next]_vars

\* The same session with the caller keeping the last influence vector that
\* individual returned, to set the next one against.
ContinueDet ==
    /\ ContinueBody
    /\ prev' = IF pc = "returned"
               THEN [op |-> "individual", args |-> call, fitX |-> _X, value |-> ret]
               ELSE prev

\* individual against the fitted reference set.
individualDet ==
    /\ individualBody(Samples1, {NoneX}, Quiet)
    /\ UNCHANGED <<config, session, _rng, prev>>

NextDet ==
    \/ fit
    \/ individualDet
    \/ TaskStart
    \/ TaskFinish
    \/ Return
    \/ ContinueDet

SpecDet == Init /\ [][NextDet]_vars

\* ================================================================== claims
Returned(op) == pc = "returned" /\ call.op = op
Ended == pc \in {"returned", "raised"}

\* The engine calls behind a vector of influences.
Ms(v) == [j \in DOMAIN v |-> v[j].m]

\* C1: individual, all and pairwise_set return one entry per input task, the
\* entry at position i being the result of the i-th task (feature i, row i,
\* pair i), whatever the worker count and the order of completion.
C1_PositionalResults ==
    /\ Returned("individual") =>
        /\ Len(ret) = Len(feature_names_)
        /\ \A j \in DOMAIN ret : ret[j].m.col_idx = j - 1
    /\ Returned("all") =>
        /\ Len(ret) = Len(call.X)
        /\ \A i \in DOMAIN ret :
            /\ Len(ret[i]) = Len(feature_names_)
            /\ \A j \in DOMAIN ret[i] :
                ret[i][j].m.row = call.X[i] /\ ret[i][j].m.col_idx = j - 1
    /\ Returned("pairwise_set") =>
        /\ Len(ret) = Len(zip(call.samples1, call.samples2))
        /\ \A i \in DOMAIN ret :
            /\ Len(ret[i]) = Len(feature_names_)
            /\ \A j \in DOMAIN ret[i] :
                /\ ret[i][j].m.row = call.samples1[i]
                /\ ret[i][j].m.X = << call.samples2[i] >>
                /\ ret[i][j].m.col_idx = j - 1

\* all has returned a matrix whose second row was computed before its first.
C1_Witness ==
    /\ Returned("all")
    /\ n_jobs > 1
    /\ Len(ret) = MaxRows
    /\ ret[2][1].draw[2] < ret[1][1].draw[2]

\* C2: two individual calls with identical configuration, arguments and
\* seed, on separately fitted sessions or one after the other on the same
\* session, return identical influence vectors.
C2_SeededCallsAgree ==
    (/\ pc = "returned"
     /\ prev.op = "individual"
     /\ prev.fitX = _X
     /\ prev.args = call) => ret = prev.value

\* The session state that only fit may write.
Frame == <<qoi_, measure_, feature_names_, _X, _y,
           sample_size, coalition_size, replace, n_jobs>>

\* C3: after fit, no step of individual, feature, all, pairwise or
\* pairwise_set changes qoi_, measure_, feature_names_, _X, _y or the
\* configured sample_size, coalition_size, replace and n_jobs.
C3_SessionFrame == [][(fitted /\ ~fit) => UNCHANGED Frame]_vars

\* A call with both overrides has returned on a session whose generator had
\* already been drawn from by an earlier call.
C3_Witness ==
    /\ Returned("all")
    /\ call.kw.sample_size # None
    /\ call.kw.coalition_size # None
    /\ ret[1][1].draw[2] > 0

\* The sizes as the resolution rule gives them.
ExpectedSize(kw, ref) ==
    IF kw.sample_size # None THEN kw.sample_size
    ELSE IF sample_size # None THEN sample_size
    ELSE Len(ref)
ExpectedCoalition(kw) ==
    IF kw.coalition_size # None THEN kw.coalition_size
    ELSE IF coalition_size # None THEN coalition_size
    ELSE Len(feature_names_) - 1
\* The engine calls behind the value just returned.
UsedCalls ==
    IF call.op = "feature" THEN {x.m : x \in DOMAIN ret.mean_of}
    ELSE {ret[j].m : j \in DOMAIN ret}
Overridden(kw) == kw.sample_size # None \/ kw.coalition_size # None

\* C4: individual, feature and pairwise hand the engine the sample_size and
\* coalition_size resolved as override, else configured value, else default
\* (rows of the reference set; feature count - 1), and an override passed to
\* any of them, pairwise included, yields a result computed with it.
C4_SizeResolution ==
    /\ (pc = "raised" /\ call.op = "pairwise" /\ call.X = NoneX
            /\ Overridden(call.kw)) => err.kind # "TypeError"
    /\ (pc = "returned" /\ call.op \in {"individual", "feature", "pairwise"}) =>
        \A m \in UsedCalls :
            /\ m.sample_size = ExpectedSize(call.kw, m.X)
            /\ m.coalition_size = ExpectedCoalition(call.kw)

\* A sample given by position.
Indexed(s) == s.kind \in {"int", "list"}

\* C5: pairwise(sample1, sample2, X=D) with integer indices (or index lists)
\* resolves them against D and returns what individual(D[sample1],
\* X=D[sample2] as a row set) returns, without raising.
C5_IndexedPairwise ==
    (/\ Ended
     /\ call.op = "pairwise"
     /\ call.X # NoneX
     /\ ~Overridden(call.kw)
     /\ Indexed(call.sample1) \/ Indexed(call.sample2)
     /\ Index(call.X, call.sample1).kind = "row"
     /\ Index(call.X, call.sample2).kind \in {"row", "set"})
    => /\ pc = "returned"
       /\ Ms(ret) = individual_calls(
              individual_args(Index(call.X, call.sample1),
                              reshape(Index(call.X, call.sample2)), call.kw))

\* The engine calls all(X) makes for one feature, over the rows of X.
AllColumn(X, kw, col_idx) ==
    {all_tasks(X, kw)[i].ms[col_idx + 1] : i \in 1..Len(X)}

\* C6: feature(f, X) is the mean over the rows of X of column f of all(X):
\* each influence it averages is the one all computes for that row and
\* feature, with the same reference set and sizes.
C6_FeatureIsColumnMean ==
    Returned("feature") =>
        {x.m : x \in DOMAIN ret.mean_of}
            = AllColumn(call.X, call.kw, col_idx_of(call.feature))

\* Length of the shorter of the two sequences handed to pairwise_set.
Shorter == Min(Len(call.samples1), Len(call.samples2))

\* C7: pairwise_set returns min(len(samples1), len(samples2)) rows, row i
\* being the vector pairwise computes for the i-th aligned pair; nothing
\* beyond the shorter sequence is evaluated.
C7_AlignedPairs ==
    /\ (pc = "running" /\ call.op = "pairwise_set") =>
        /\ Len(tasks) = Shorter
        /\ \A k \in DOMAIN tasks : \A j \in DOMAIN tasks[k].ms :
            /\ tasks[k].ms[j].row = call.samples1[k]
            /\ tasks[k].ms[j].X = << call.samples2[k] >>
    /\ Returned("pairwise_set") =>
        /\ Len(ret) = Shorter
        /\ \A i \in DOMAIN ret :
            Ms(ret[i]) = individual_calls(
                pairwise_individual(RowSample(call.samples1[i]),
                                    RowSample(call.samples2[i]),
                                    call.X, call.kw))

\* pairwise_set has returned for two sequences of different lengths.
C7_Witness ==
    /\ Returned("pairwise_set")
    /\ Len(call.samples1) > Len(call.samples2)
    /\ Len(ret) = Len(call.samples2)

\* C8: within one all(X) call every row is explained against the same
\* reference set, the fitted X, whatever X is explained and however the
\* rows are scheduled.
C8_FixedReference ==
    /\ (pc = "running" /\ call.op = "all") =>
        \A k \in DOMAIN tasks : \A j \in DOMAIN tasks[k].ms :
            tasks[k].ms[j].X = _X
    /\ Returned("all") =>
        \A i \in DOMAIN ret : \A j \in DOMAIN ret[i] : ret[i][j].m.X = _X

\* all has explained, on several workers, a dataset that is not the fitted
\* one.
C8_Witness ==
    /\ Returned("all")
    /\ call.X # _X
    /\ Len(call.X) > 1
    /\ n_jobs > 1

\* C9: every engine call issued has sample_size <= rows of the reference
\* set passed with it, unless replace is true.
C9_SampleWithinReference ==
    pc = "running" =>
        \A k \in DOMAIN tasks : status[k] # "pending" =>
            \A j \in DOMAIN tasks[k].ms :
                \/ tasks[k].ms[j].sample_size <= Len(tasks[k].ms[j].X)
                \/ tasks[k].ms[j].replace

\* C10: a configuration error of individual, all, pairwise or pairwise_set
\* is raised before any task is dispatched, never from inside a task.
C10_ErrorsBeforeDispatch ==
    (/\ pc = "raised"
     /\ err.kind = "ConfigurationError"
     /\ call.op \in {"individual", "all", "pairwise", "pairwise_set"})
    => err.site = "call"
====
